---- MODULE Spec2Model ----
(***************************************************************************)
(* A model of timetable_checker.py: the weekday-block locator, the cell    *)
(* and teacher-name normalisers, the teacher-grid builder and the pattern  *)
(* analyzer, run in the order run_check and run_self_tests run them.       *)
(*                                                                         *)
(* Python values are tagged records: None, Str(s) with s the sequence of   *)
(* the string's characters, Num(n).  A character is a one-token string;    *)
(* "SP", "TAB", "LF", "CR" are the blank, tab, line feed and carriage      *)
(* return, and "Mon" .. "Fri" are the five one-character weekday labels of *)
(* DAYS_ORDER.                                                             *)
(***************************************************************************)
EXTENDS Integers, Sequences, FiniteSets, TLC

\* ------------------------------------------------------------ Python values

None == [t |-> "none"]

Str(s) == [t |-> "str", s |-> s]

Num(n) == [t |-> "int", n |-> n]

isinstance_str(v) == v.t = "str"

\* DAYS_ORDER = ["월", "화", "수", "목", "금"], each label one character.
DAYS_ORDER == <<"Mon", "Tue", "Wed", "Thu", "Fri">>

Days == {DAYS_ORDER[i] : i \in 1..Len(DAYS_ORDER)}

\* range(1, 8): the periods of a day.
NumPeriods == 7

Periods == 1..NumPeriods

\* The header row, the first data row and the identity column.
HeaderRow == 2

FirstDataRow == 4

NameCol == 1

\* What str.strip() strips and \s matches.
Whitespace == {"SP", "TAB", "LF", "CR"}

DigitSeq == <<"0", "1", "2", "3", "4", "5", "6", "7", "8", "9">>

\* What \d matches and str.isdigit() accepts.
Digits == {DigitSeq[i] : i \in 1..Len(DigitSeq)}

\* int() of one digit character.
DigitVal(c) == (CHOOSE i \in 1..Len(DigitSeq) : DigitSeq[i] = c) - 1

RECURSIVE int_of_digits(_)
\* int() of a string of digits.
int_of_digits(s) ==
    IF s = <<>> THEN 0
    ELSE 10 * int_of_digits(SubSeq(s, 1, Len(s) - 1)) + DigitVal(s[Len(s)])

RECURSIVE str_of_nat(_)
\* str() of a non-negative integer.
str_of_nat(n) ==
    IF n < 10 THEN <<DigitSeq[n + 1]>>
    ELSE str_of_nat(n \div 10) \o <<DigitSeq[(n % 10) + 1]>>

\* str(value) for the values a cell can hold.
str(v) ==
    IF v.t = "str" THEN v.s
    ELSE IF v.t = "int" THEN str_of_nat(v.n)
    ELSE <<"N", "o", "n", "e">>

RECURSIVE lstrip(_)
lstrip(s) ==
    IF s # <<>> /\ Head(s) \in Whitespace THEN lstrip(Tail(s)) ELSE s

RECURSIVE rstrip(_)
rstrip(s) ==
    IF s # <<>> /\ s[Len(s)] \in Whitespace
    THEN rstrip(SubSeq(s, 1, Len(s) - 1))
    ELSE s

\* str.strip()
strip(s) == rstrip(lstrip(s))

RECURSIVE replace(_, _, _)
\* str.replace(old, new): every non-overlapping occurrence, left to right.
replace(s, old, new) ==
    IF Len(s) < Len(old) THEN s
    ELSE IF SubSeq(s, 1, Len(old)) = old
         THEN new \o replace(SubSeq(s, Len(old) + 1, Len(s)), old, new)
         ELSE <<Head(s)>> \o replace(Tail(s), old, new)

\* ------------------------------------------------------------ the grid

\* FakeWorksheet(data): the grid of a list of rows.  max_row is the number
\* of rows, max_column the longest row's length, and the cells kept are
\* those holding a value: cell() reads every other cell as None.
RECURSIVE MaxLen(_)
MaxLen(rows) ==
    IF rows = <<>> THEN 0
    ELSE LET m == MaxLen(Tail(rows))
         IN IF Len(Head(rows)) > m THEN Len(Head(rows)) ELSE m

FakeWorksheet(rows) ==
    [max_row |-> Len(rows),
     max_column |-> MaxLen(rows),
     cells |-> [rc \in {<<r, c>> \in (1..Len(rows)) \X (1..MaxLen(rows)) :
                           c <= Len(rows[r]) /\ rows[r][c] # None} |->
                   rows[rc[1]][rc[2]]]]

\* getattr(sheet, "max_row", 0) or 0
max_row(sheet_) == sheet_.max_row

\* getattr(sheet, "max_column", 0) or 0
max_column(sheet_) == sheet_.max_column

\* sheet.cell(row=row, column=col).value
cell(sheet_, row, col) ==
    IF <<row, col>> \in DOMAIN sheet_.cells
    THEN sheet_.cells[<<row, col>>]
    ELSE None

\* ------------------------------------------------------------ detect_day_blocks

DayBlock(day, start_col) == [day |-> day, start_col |-> start_col]

\* value in DAYS_ORDER: a string of exactly one weekday character.
InDaysOrder(value) ==
    /\ isinstance_str(value)
    /\ Len(value.s) = 1
    /\ value.s[1] \in Days

RECURSIVE ScanHeader_repeats(_, _, _, _)
\* Faulty variant: the scan without the test against seen.
ScanHeader_repeats(sheet_, col, blocks, seen) ==
    IF col > max_column(sheet_) THEN blocks
    ELSE LET raw == cell(sheet_, HeaderRow, col)
             value == IF isinstance_str(raw) THEN Str(strip(raw.s)) ELSE raw
         IN IF InDaysOrder(value)
            THEN ScanHeader_repeats(sheet_, col + 1,
                                    Append(blocks, DayBlock(value.s[1], col)),
                                    seen \cup {value.s[1]})
            ELSE ScanHeader_repeats(sheet_, col + 1, blocks, seen)

RECURSIVE ScanHeader(_, _, _, _)
\* The loop of detect_day_blocks from column col on.
ScanHeader(sheet_, col, blocks, seen) ==
    IF col > max_column(sheet_) THEN blocks
    ELSE LET raw == cell(sheet_, HeaderRow, col)
             value == IF isinstance_str(raw) THEN Str(strip(raw.s)) ELSE raw
         IN IF InDaysOrder(value) /\ value.s[1] \notin seen
            THEN ScanHeader(sheet_, col + 1,
                            Append(blocks, DayBlock(value.s[1], col)),
                            seen \cup {value.s[1]})
            ELSE ScanHeader(sheet_, col + 1, blocks, seen)

\* Faulty variant: an empty block list is returned instead of raising.
detect_day_blocks_silent(sheet_) ==
    [raised |-> FALSE, blocks |-> ScanHeader(sheet_, 1, <<>>, {})]

\* The result of detect_day_blocks: the block list, or ParseError raised.
detect_day_blocks(sheet_) ==
    LET blocks == ScanHeader(sheet_, 1, <<>>, {})
    IN IF blocks = <<>>
       THEN [raised |-> TRUE, blocks |-> <<>>]
       ELSE [raised |-> FALSE, blocks |-> blocks]

\* ------------------------------------------------------------ normalisers

\* The suffix of s from position i matches \s*\([^)]*\)\s*$ .
AnnotationAt(s, i) ==
    \E k \in i..Len(s) :
        /\ \A x \in i..(k - 1) : s[x] \in Whitespace
        /\ s[k] = "("
        /\ \E j \in (k + 1)..Len(s) :
              /\ s[j] = ")"
              /\ \A x \in (k + 1)..(j - 1) : s[x] # ")"
              /\ \A x \in (j + 1)..Len(s) : s[x] \in Whitespace

\* re.sub(r"\s*\([^)]*\)\s*$", "", s): the leftmost match runs to the end
\* of the string and is removed.
sub_annotation(s) ==
    LET starts == {i \in 1..Len(s) : AnnotationAt(s, i)}
    IN IF starts = {} THEN s
       ELSE LET first == CHOOSE i \in starts : \A j \in starts : i <= j
            IN SubSeq(s, 1, first - 1)

normalize_teacher_name(raw_name) == strip(sub_annotation(strip(raw_name)))

\* The spreadsheet's carriage-return artifact followed by a line feed.
X000D_LF == <<"_", "x", "0", "0", "0", "D", "_", "LF">>

normalize_cell_text(value) ==
    replace(replace(replace(value, X000D_LF, <<"LF">>),
                    <<"CR", "LF">>, <<"LF">>),
            <<"CR">>, <<"LF">>)

RECURSIVE first_line(_)
\* text.split("\n", 1)[0]
first_line(text) ==
    IF text = <<>> \/ Head(text) = "LF" THEN <<>>
    ELSE <<Head(text)>> \o first_line(Tail(text))

RECURSIVE leading_digits(_)
leading_digits(s) ==
    IF s # <<>> /\ Head(s) \in Digits
    THEN <<Head(s)>> \o leading_digits(Tail(s))
    ELSE <<>>

\* Faulty variant: \d* in place of \d+, so a cell without digits yields "".
parse_cell_to_class_blank(value) ==
    IF ~isinstance_str(value) THEN None
    ELSE Str(leading_digits(lstrip(first_line(normalize_cell_text(value.s)))))

parse_cell_to_class(value) ==
    IF ~isinstance_str(value) THEN None
    ELSE LET text == normalize_cell_text(value.s)
             digits == leading_digits(lstrip(first_line(text)))
         IN IF digits = <<>> THEN None ELSE Str(digits)

\* format_class_code: the parts the rendered text is made of.
format_class_code(code) ==
    IF Len(code) = 3 /\ \A i \in 1..3 : code[i] \in Digits
    THEN [grade |-> <<code[1]>>, class_no |-> int_of_digits(SubSeq(code, 2, 3)),
          code |-> code]
    ELSE [grade |-> <<>>, class_no |-> 0, code |-> code]

\* ------------------------------------------------------------ parse_teacher_rows

\* {day: {p: None for p in range(1, 8)} for day in DAYS_ORDER}
EmptySchedule == [day \in Days |-> [period \in Periods |-> None]]

RECURSIVE FillBlocks_keep(_, _, _, _)
\* Faulty variant: a cell that normalises to None leaves the earlier value.
FillBlocks_keep(sheet_, row, blocks, schedule) ==
    IF blocks = <<>> THEN schedule
    ELSE LET block == Head(blocks)
             read == [period \in Periods |->
                        LET v == parse_cell_to_class(
                                     cell(sheet_, row, block.start_col + period - 1))
                        IN IF v = None THEN schedule[block.day][period] ELSE v]
         IN FillBlocks_keep(sheet_, row, Tail(blocks),
                            [schedule EXCEPT ![block.day] = read])

RECURSIVE FillBlocks(_, _, _, _)
\* The loop over day_blocks for one row: every period of every located
\* block is assigned the row's normalised cell.
FillBlocks(sheet_, row, blocks, schedule) ==
    IF blocks = <<>> THEN schedule
    ELSE LET block == Head(blocks)
             read == [period \in Periods |->
                        parse_cell_to_class(
                            cell(sheet_, row, block.start_col + period - 1))]
         IN FillBlocks(sheet_, row, Tail(blocks),
                       [schedule EXCEPT ![block.day] = read])

RECURSIVE ScanRows(_, _, _, _)
\* The loop of parse_teacher_rows from row `row` on.
ScanRows(sheet_, blocks, row, data_) ==
    IF row > max_row(sheet_) THEN data_
    ELSE LET teacher_cell == cell(sheet_, row, NameCol)
             teacher_name == normalize_teacher_name(str(teacher_cell))
             skip == ScanRows(sheet_, blocks, row + 1, data_)
         IN IF teacher_cell = None THEN skip
            ELSE IF isinstance_str(teacher_cell) /\ strip(teacher_cell.s) = <<>>
            THEN skip
            ELSE IF teacher_name = <<>> THEN skip
            ELSE LET old == IF teacher_name \in DOMAIN data_
                            THEN data_[teacher_name]
                            ELSE EmptySchedule
                     new == FillBlocks(sheet_, row, blocks, old)
                 IN ScanRows(sheet_, blocks, row + 1,
                             [n \in DOMAIN data_ \cup {teacher_name} |->
                                 IF n = teacher_name THEN new ELSE data_[n]])

NoTeachers == [n \in {} |-> EmptySchedule]

parse_teacher_rows(sheet_, blocks) ==
    ScanRows(sheet_, blocks, FirstDataRow, NoTeachers)

\* ------------------------------------------------------------ analyze_patterns

\* dict.get(p): None for a missing key.
get(periods, p) == IF p \in DOMAIN periods THEN periods[p] ELSE None

\* day_map.get(day, {})
get_day(day_map, day) ==
    IF day \in DOMAIN day_map THEN day_map[day] ELSE <<>>

\* Faulty variant: the window stops one period early.
Window_short(periods, start, consecutive_len) ==
    [i \in 1..(consecutive_len - 1) |-> get(periods, start + i - 1)]

\* [periods.get(p) for p in range(start, start + consecutive_len)]
Window(periods, start, consecutive_len) ==
    [i \in 1..consecutive_len |-> get(periods, start + i - 1)]

\* Faulty variant: the tuple leaves out the window's position.
SeenKey_coarse(day, start, end_, class_code) == <<day, class_code>>

\* The tuple seen_a holds for a matched window.
SeenKey(day, start, end_, class_code) == <<day, start, end_, class_code>>

RECURSIVE ScanA(_, _, _, _, _, _)
\* Pattern A's two loops, from weekday number d and start period `start`
\* on: the records appended to teacher_summary["patternA"].
ScanA(day_map, consecutive_len, d, start, found, seen_a) ==
    IF d > Len(DAYS_ORDER) THEN found
    ELSE IF start > NumPeriods - consecutive_len + 1
    THEN ScanA(day_map, consecutive_len, d + 1, 1, found, seen_a)
    ELSE LET day == DAYS_ORDER[d]
             window == Window(get_day(day_map, day), start, consecutive_len)
             codes == {window[i] : i \in 1..Len(window)}
             key == SeenKey(day, start, start + consecutive_len - 1, window[1])
             rec == [day |-> day, start |-> start,
                     end |-> start + consecutive_len - 1,
                     class_code |-> window[1]]
         IN IF None \in codes
            THEN ScanA(day_map, consecutive_len, d, start + 1, found, seen_a)
            ELSE IF Cardinality(codes) = 1 /\ key \notin seen_a
            THEN ScanA(day_map, consecutive_len, d, start + 1,
                       Append(found, rec), seen_a \cup {key})
            ELSE ScanA(day_map, consecutive_len, d, start + 1, found, seen_a)

PatternA(day_map, consecutive_len) ==
    ScanA(day_map, consecutive_len, 1, 1, <<>>, {})

\* Pattern B's matched_days.
MatchedDaysB(day_map, target_periods) ==
    SelectSeq(DAYS_ORDER,
              LAMBDA day : \A i \in 1..Len(target_periods) :
                              get(get_day(day_map, day), target_periods[i]) # None)

\* Pattern C's matched_days.
MatchedDaysC(day_map) ==
    SelectSeq(DAYS_ORDER,
              LAMBDA day : get(get_day(day_map, day), NumPeriods) # None)

\* Faulty variant: more than min_days days are asked for.
Reaches_strict(matched_days, min_days) == Len(matched_days) > min_days

\* The threshold test of Patterns B and C.
Reaches(matched_days, min_days) == Len(matched_days) >= min_days

MessageA(teacher, rec) ==
    [pattern |-> "A", teacher |-> teacher, day |-> rec.day,
     start |-> rec.start, end |-> rec.end,
     class_text |-> format_class_code(rec.class_code.s)]

MessageB(teacher, cfg, matched_days) ==
    [pattern |-> "B", teacher |-> teacher, total_days |-> Len(DAYS_ORDER),
     min_days |-> cfg.min_days, periods |-> cfg.target_periods,
     days |-> matched_days]

MessageC(teacher, cfg, matched_days) ==
    [pattern |-> "C", teacher |-> teacher, total_days |-> Len(DAYS_ORDER),
     min_days |-> cfg.min_days, periods |-> <<NumPeriods>>,
     days |-> matched_days]

NotTriggered == [triggered |-> FALSE, days |-> <<>>]

\* One iteration of analyze_patterns' loop over data.items(): the
\* teacher's messages and summary.
AnalyzeTeacher(teacher, day_map, cfg) ==
    LET found == PatternA(day_map, cfg.consecutive_len)
        daysB == MatchedDaysB(day_map, cfg.target_periods)
        daysC == MatchedDaysC(day_map)
        hitB == Reaches(daysB, cfg.min_days)
        hitC == cfg.check_period7 /\ Reaches(daysC, cfg.min_days)
    IN [msgs |-> [i \in 1..Len(found) |-> MessageA(teacher, found[i])]
                 \o (IF hitB THEN <<MessageB(teacher, cfg, daysB)>> ELSE <<>>)
                 \o (IF hitC THEN <<MessageC(teacher, cfg, daysC)>> ELSE <<>>),
        summary |-> [patternA |-> found,
                     patternB |-> IF hitB
                                  THEN [triggered |-> TRUE, days |-> daysB]
                                  ELSE NotTriggered,
                     patternC |-> IF hitC
                                  THEN [triggered |-> TRUE, days |-> daysC]
                                  ELSE NotTriggered]]

\* Faulty variant: the summary entry is written only beside the messages entry.
analyze_patterns_reported_only(data_, cfg) ==
    LET result == [teacher \in DOMAIN data_ |->
                      AnalyzeTeacher(teacher, data_[teacher], cfg)]
        reported == {teacher \in DOMAIN data_ : result[teacher].msgs # <<>>}
    IN [messages |-> [teacher \in reported |-> result[teacher].msgs],
        summary |-> [teacher \in reported |-> result[teacher].summary]]

\* The loop of analyze_patterns over data.items(): a teacher is given a
\* messages entry only if teacher_msgs is not empty, and always a summary
\* entry.
analyze_patterns(data_, cfg) ==
    LET result == [teacher \in DOMAIN data_ |->
                      AnalyzeTeacher(teacher, data_[teacher], cfg)]
        reported == {teacher \in DOMAIN data_ : result[teacher].msgs # <<>>}
    IN [messages |-> [teacher \in reported |-> result[teacher].msgs],
        summary |-> [teacher \in DOMAIN data_ |-> result[teacher].summary]]

\* ------------------------------------------------------------ run_check's inputs

\* int(text): the integer, or ValueError raised.  Surrounding whitespace
\* and one sign are accepted, as Python accepts them.
int(text) ==
    LET t == strip(text)
        signed == t # <<>> /\ Head(t) \in {"-", "+"}
        body == IF signed THEN Tail(t) ELSE t
    IN IF body # <<>> /\ \A i \in 1..Len(body) : body[i] \in Digits
       THEN [raised |-> FALSE,
             value |-> IF signed /\ Head(t) = "-"
                       THEN 0 - int_of_digits(body)
                       ELSE int_of_digits(body)]
       ELSE [raised |-> TRUE, value |-> 0]

RECURSIVE split(_, _)
\* value.split(sep)
split(s, sep) ==
    IF \A i \in 1..Len(s) : s[i] # sep THEN <<s>>
    ELSE LET k == CHOOSE i \in 1..Len(s) :
                      s[i] = sep /\ \A j \in 1..(i - 1) : s[j] # sep
         IN <<SubSeq(s, 1, k - 1)>> \o split(SubSeq(s, k + 1, Len(s)), sep)

\* parse_int_list: the stripped non-empty parts, each through int().
parse_int_list(value) ==
    LET pieces == split(value, ",")
        parts == SelectSeq([i \in 1..Len(pieces) |-> strip(pieces[i])],
                           LAMBDA part : part # <<>>)
        ints == [i \in 1..Len(parts) |-> int(parts[i])]
    IN IF \E i \in 1..Len(ints) : ints[i].raised
       THEN [raised |-> TRUE, value |-> <<>>]
       ELSE [raised |-> FALSE, value |-> [i \in 1..Len(ints) |-> ints[i].value]]

\* The four conversions at the head of run_check.
read_form(form_) ==
    LET m == int(form_.min_days_var)
        c == int(form_.consecutive_var)
        t == parse_int_list(form_.target_periods_var)
    IN IF m.raised \/ c.raised \/ t.raised
       THEN [raised |-> TRUE]
       ELSE [raised |-> FALSE,
             min_days |-> m.value,
             consecutive_len |-> c.value,
             target_periods |-> t.value,
             check_period7 |-> form_.check_period7_var # 0]

\* ------------------------------------------------------------ the state

VARIABLES
    pc,          \* where the run stands
    sheet,       \* the grid read (never written)
    form,        \* the text of the entry fields
    config,      \* the converted parameters
    day_blocks,  \* detect_day_blocks' result
    data,        \* parse_teacher_rows' result
    messages,    \* analyze_patterns' findings
    summary,     \* analyze_patterns' summary
    dialog       \* the error dialog shown, if any

vars == <<pc, sheet, form, config, day_blocks, data, messages, summary, dialog>>

NoConfig == [raised |-> TRUE]

\* The state before the check button is pressed.
Fresh ==
    /\ pc = "start"
    /\ config = NoConfig
    /\ day_blocks = <<>>
    /\ data = NoTeachers
    /\ messages = NoTeachers
    /\ summary = NoTeachers
    /\ dialog = "none"

\* run_check, lines 317-324: a ValueError of a conversion shows the input
\* dialog and returns.
ReadInputs ==
    /\ pc = "start"
    /\ LET cfg == read_form(form)
       IN IF cfg.raised
          THEN /\ pc' = "returned"
               /\ dialog' = "input_error"
               /\ config' = config
          ELSE /\ pc' = "ready"
               /\ dialog' = dialog
               /\ config' = cfg
    /\ UNCHANGED <<sheet, form, day_blocks, data, messages, summary>>

\* detect_day_blocks; its ParseError ends the run in the parse dialog.
DetectDayBlocks ==
    /\ pc = "ready"
    /\ LET r == detect_day_blocks(sheet)
       IN IF r.raised
          THEN /\ pc' = "returned"
               /\ dialog' = "parse_error"
               /\ day_blocks' = day_blocks
          ELSE /\ pc' = "detected"
               /\ dialog' = dialog
               /\ day_blocks' = r.blocks
    /\ UNCHANGED <<sheet, form, config, data, messages, summary>>

ParseTeacherRows ==
    /\ pc = "detected"
    /\ data' = parse_teacher_rows(sheet, day_blocks)
    /\ pc' = "parsed"
    /\ UNCHANGED <<sheet, form, config, day_blocks, messages, summary, dialog>>

AnalyzePatterns ==
    /\ pc = "parsed"
    /\ LET r == analyze_patterns(data, config)
       IN /\ messages' = r.messages
          /\ summary' = r.summary
    /\ pc' = "done"
    /\ UNCHANGED <<sheet, form, config, day_blocks, data, dialog>>

Next ==
    \/ ReadInputs
    \/ DetectDayBlocks
    \/ ParseTeacherRows
    \/ AnalyzePatterns

\* ------------------------------------------------------------ the sample grid

\* build_sample_sheet_for_tests: 6 rows of 36 cells.
SampleRows == 6

SampleColumns == 36

\* The weekday block (0-based) and the period of a data column >= 2.
BlockIndex(col) == (col - 2) \div NumPeriods

PeriodOf(col) == ((col - 2) % NumPeriods) + 1

TitleRow ==
    [col \in 1..SampleColumns |-> IF col = 1 THEN Str(<<"T">>) ELSE None]

\* Row 2: the weekday labels, one every 7 columns from column 2.
StandardHeader ==
    [col \in 1..SampleColumns |->
        IF col >= 2 /\ PeriodOf(col) = 1
        THEN Str(<<DAYS_ORDER[BlockIndex(col) + 1]>>)
        ELSE None]

\* Row 3: the period numbers.
PeriodRow ==
    [col \in 1..SampleColumns |-> IF col >= 2 THEN Num(PeriodOf(col)) ELSE None]

BlankRow == [col \in 1..SampleColumns |-> None]

\* "101\n국어", "203\n수학", "305\n영어"
Cell101 == Str(<<"1", "0", "1", "LF", "K">>)

Cell203 == Str(<<"2", "0", "3", "LF", "M">>)

Cell305 == Str(<<"3", "0", "5", "LF", "E">>)

\* "홍길동(1)"
SampleName == Str(<<"H", "G", "D", "(", "1", ")">>)

\* Row 4 after the three groups of assignments, the later ones overwriting
\* the earlier ones.
SampleTeacherRow ==
    [col \in 1..SampleColumns |->
        IF col = 1 THEN SampleName
        ELSE LET day == DAYS_ORDER[BlockIndex(col) + 1]
                 p == PeriodOf(col)
             IN IF day \in {"Tue", "Thu", "Fri"} /\ p = 7 THEN Cell305
                ELSE IF day \in {"Mon", "Wed", "Fri"} /\ p \in {1, 4, 5, 7}
                THEN Cell203
                ELSE IF day = "Wed" /\ p \in 1..4 THEN Cell101
                ELSE None]

SampleSheet ==
    FakeWorksheet(<<TitleRow, StandardHeader, PeriodRow, SampleTeacherRow>>
                  \o [r \in 1..(SampleRows - 4) |-> BlankRow])

\* ------------------------------------------------------------ the entry fields

str_of_int(n) == IF n < 0 THEN <<"-">> \o str_of_nat(0 - n) ELSE str_of_nat(n)

RECURSIVE join_ints(_)
\* ",".join(str(p) for p in ints)
join_ints(ints) ==
    IF ints = <<>> THEN <<>>
    ELSE IF Len(ints) = 1 THEN str_of_int(ints[1])
    ELSE str_of_int(ints[1]) \o <<",">> \o join_ints(Tail(ints))

\* The entry fields holding the given parameters.
Form(min_days, consecutive_len, target_periods, check7) ==
    [min_days_var |-> str_of_int(min_days),
     consecutive_var |-> str_of_int(consecutive_len),
     target_periods_var |-> join_ints(target_periods),
     check_period7_var |-> check7]

\* The fields' default values, which are run_self_tests' arguments.
SampleForm == Form(3, 4, <<1, 4, 5, 7>>, 1)

\* Fields the conversions refuse, and fields they accept with blanks.
OddForms ==
    {[SampleForm EXCEPT !.min_days_var = <<"x">>],
     [SampleForm EXCEPT !.consecutive_var = <<>>],
     [SampleForm EXCEPT !.target_periods_var = <<"1", ",", "a">>],
     [SampleForm EXCEPT !.target_periods_var = <<"SP", "1", ",", ",", "SP", "4">>],
     [SampleForm EXCEPT !.min_days_var = <<"SP", "+", "2", "SP">>]}

\* ------------------------------------------------------------ bounded inputs

\* The most data rows of a generated grid.
MaxDataRows == 2

\* The header cells after the identity column of a generated header.
HeaderCols == 3

\* The cells after the identity cell of a generated data row.
RowCells == 10

\* The largest consecutive length entered.
MaxConsecutive == 8

\* The largest minimum number of days entered.
MaxMinDays == 6

HeaderLabels ==
    {None, Num(1), Str(<<"Tue">>), Str(<<"Mon">>), Str(<<"SP", "Mon", "TAB">>)}

\* Kinds of data-row content; the cell of column col under each: the
\* column number as the class code, or by turns a cell whose first line is
\* empty, a cell of code 7 and a number.
Fills == {"col", "mixed"}

FillCell(fill, col) ==
    IF fill = "col" THEN Str(str_of_nat(col) \o <<"LF", "x">>)
    ELSE IF col % 3 = 0 THEN Str(<<"CR", "1">>)
    ELSE IF col % 3 = 1 THEN Str(<<"SP", "7", "CR", "LF", "x">>)
    ELSE Num(col)

Row(name, fill) ==
    <<name>> \o [i \in 1..RowCells |-> FillCell(fill, i + 1)]

NameCells ==
    {None, Str(<<"SP">>), Str(<<"k", "(", "1", ")">>),
     Str(<<"SP", "k", "SP", "(", "2", ")">>), Str(<<"m">>)}

RowChoices == {Row(name, fill) : name \in NameCells, fill \in Fills}

RowLists == UNION {[1..n -> RowChoices] : n \in 0..MaxDataRows}

Grid(header, rows) ==
    FakeWorksheet(<<<<Str(<<"T">>)>>, header, <<>>>> \o rows)

\* Headers of every combination of labels, over one fixed pair of rows.
HeaderStudy ==
    {Grid(<<None>> \o labels,
          <<Row(Str(<<"k">>), "col"), Row(Str(<<"m">>), "mixed")>>) :
        labels \in [1..HeaderCols -> HeaderLabels]}

TwoBlockHeader ==
    <<None, Str(<<"Mon">>), None, None, None, None, None, None, Str(<<"Tue">>)>>

OverlapHeader == <<None, Str(<<"Thu">>), None, Str(<<"Mon">>)>>

\* Every list of data rows, under two headers.
RowStudy ==
    {Grid(header, rows) :
        header \in {TwoBlockHeader, OverlapHeader}, rows \in RowLists}

\* Identity cells that are not strings, or are only an annotation.
OddNameStudy ==
    {Grid(TwoBlockHeader, <<Row(name, "col"), Row(Str(<<"k">>), "mixed")>>) :
        name \in {Num(7), Num(120), Str(<<"(", "1", ")">>),
                  Str(<<"k", "(", "1", ")", "(", "2", ")">>),
                  Str(<<"k", "(", "1", ")", "SP", "x">>)}}

Init ==
    /\ Fresh
    /\ \/ /\ sheet \in {SampleSheet} \cup HeaderStudy \cup RowStudy \cup OddNameStudy
          /\ form = SampleForm
       \/ /\ sheet = SampleSheet
          /\ form \in OddForms

Spec == Init /\ [][Next]_vars

\* ------------------------------------------------------------ inputs for Pattern A

\* A data row of the standard layout: week[day][period] under each block.
WeekRow(name, week) ==
    [col \in 1..SampleColumns |->
        IF col = 1 THEN name
        ELSE week[DAYS_ORDER[BlockIndex(col) + 1]][PeriodOf(col)]]

WeekSheet(rows) ==
    FakeWorksheet(<<TitleRow, StandardHeader, PeriodRow>> \o rows)

RunCells == {None, Cell101, Cell203}

\* Monday holds the given cells, Wednesday the same cells backwards, the
\* other days nothing.
RunWeek(v) ==
    [day \in Days |->
        IF day = "Mon" THEN v
        ELSE IF day = "Wed" THEN [p \in Periods |-> v[NumPeriods + 1 - p]]
        ELSE [p \in Periods |-> None]]

FullWeek == [day \in Days |-> [p \in Periods |-> Cell305]]

\* A day of three stretches: x up to period a, y up to period b, z after.
Stretches(a, b, x, y, z) ==
    [p \in Periods |-> IF p <= a THEN x ELSE IF p <= b THEN y ELSE z]

RunDays ==
    {Stretches(a, b, x, y, z) :
        a \in 0..NumPeriods, b \in 0..NumPeriods,
        x \in RunCells, y \in RunCells, z \in RunCells}

RunSheets ==
    {WeekSheet(<<WeekRow(SampleName, RunWeek(v)),
                 WeekRow(Str(<<"m">>), FullWeek)>>) :
        v \in RunDays}

InitPatternA ==
    /\ Fresh
    /\ sheet \in RunSheets
    /\ form \in {Form(3, len, <<1, 4, 5, 7>>, 1) : len \in (0 - 1)..MaxConsecutive}

SpecPatternA == InitPatternA /\ [][Next]_vars

\* ------------------------------------------------------------ inputs for Patterns B and C

\* Kinds of day: E nothing, S period 7 only, T periods 1, 4, 5,
\* F periods 1, 4, 5 and 7.
KindCells(kind) ==
    [p \in Periods |->
        IF p = 7 /\ kind \in {"S", "F"} THEN Cell305
        ELSE IF p \in {1, 4, 5} /\ kind \in {"T", "F"} THEN Cell203
        ELSE None]

KindWeek(kinds) == [day \in Days |-> KindCells(kinds[day])]

\* A second teacher with period 7 on Monday and Tuesday only.
TwoSevens ==
    WeekRow(Str(<<"m">>),
            KindWeek([day \in Days |-> IF day \in {"Mon", "Tue"} THEN "S" ELSE "E"]))

KindSheet(kinds) ==
    WeekSheet(<<WeekRow(SampleName, KindWeek(kinds)), TwoSevens>>)

TargetChoices == {<<>>, <<7>>, <<1, 4, 5>>, <<1, 4, 5, 7>>, <<1, 8>>}

MinDaysChoices == (0 - 1)..MaxMinDays

InitPatternBC ==
    /\ Fresh
    /\ \/ /\ sheet \in {KindSheet(kinds) : kinds \in [Days -> {"E", "S", "F"}]}
          /\ form \in {Form(m, 4, <<1, 4, 5, 7>>, 1) : m \in MinDaysChoices}
       \/ /\ sheet \in {KindSheet(kinds) : kinds \in [Days -> {"S", "T"}]}
          /\ form \in {Form(m, 2, targets, check7) :
                          m \in MinDaysChoices,
                          targets \in TargetChoices, check7 \in {0, 1}}

SpecPatternBC == InitPatternBC /\ [][Next]_vars

\* ------------------------------------------------------------ properties

Scanned == pc \in {"detected", "parsed", "done"}

Parsed == pc \in {"parsed", "done"}

NoResults ==
    /\ day_blocks = <<>>
    /\ DOMAIN data = {}
    /\ DOMAIN messages = {}
    /\ DOMAIN summary = {}

SampleTeacher == <<"H", "G", "D">>

SampleConfig ==
    [raised |-> FALSE, min_days |-> 3, consecutive_len |-> 4,
     target_periods |-> <<1, 4, 5, 7>>, check_period7 |-> TRUE]

\* C1: for the sample grid run with consecutive length 4, target periods
\* 1,4,5,7, at least 3 days and the period-7 check on, the sample teacher's
\* result is exactly one Pattern-A record (Wed, periods 1-4, code 101),
\* Pattern B triggered with days Mon,Wed,Fri and Pattern C triggered with
\* days Tue,Thu,Fri.
C1_SampleFindings ==
    (pc = "done" /\ sheet = SampleSheet /\ config = SampleConfig) =>
        /\ DOMAIN summary = {SampleTeacher}
        /\ summary[SampleTeacher] =
              [patternA |-> <<[day |-> "Wed", start |-> 1, end |-> 4,
                               class_code |-> Str(<<"1", "0", "1">>)]>>,
               patternB |-> [triggered |-> TRUE, days |-> <<"Mon", "Wed", "Fri">>],
               patternC |-> [triggered |-> TRUE, days |-> <<"Tue", "Thu", "Fri">>]]

\* The configuration violates the stated constraints.
OutOfRange(cfg) ==
    \/ cfg.target_periods = <<>>
    \/ cfg.min_days \notin 1..5
    \/ cfg.consecutive_len \notin 1..7

\* The run has ended: no step is left to take.
Ended == pc \in {"returned", "done"}

\* C2: whenever the converted configuration has no target periods, or a
\* minimum of days outside 1..5, or a consecutive length outside 1..7, the
\* run ends in an error dialog before any teacher is scanned: at its end no
\* schedule, no finding and no summary entry exists for any teacher.
C2_ConfigRejected ==
    (~config.raised /\ OutOfRange(config) /\ Ended) =>
        /\ pc = "returned"
        /\ dialog # "none"
        /\ DOMAIN data = {}
        /\ DOMAIN messages = {}
        /\ DOMAIN summary = {}

\* The trimmed header cell of column col is the label of weekday day.
LabelAt(sheet_, col, day) ==
    LET v == cell(sheet_, HeaderRow, col)
    IN isinstance_str(v) /\ strip(v.s) = <<day>>

HasWeekdayLabel(sheet_) ==
    \E col \in 1..max_column(sheet_) : \E day \in Days : LabelAt(sheet_, col, day)

\* detect_day_blocks has been called.
DetectRan == Scanned \/ dialog = "parse_error"

\* C3: once detect_day_blocks has run, a header row without any weekday
\* label has ended the run in the parse-error dialog with no block, no
\* teacher schedule, no finding and no summary; a header row with at least
\* one label has given a non-empty block list and no error dialog.
C3_LayoutError ==
    DetectRan =>
        IF HasWeekdayLabel(sheet)
        THEN /\ Scanned
             /\ dialog = "none"
             /\ day_blocks # <<>>
        ELSE /\ pc = "returned"
             /\ dialog = "parse_error"
             /\ NoResults

\* C3's case: a grid whose header row holds cells, none of them a weekday
\* label, ended in the parse-error dialog.
C3_Witness ==
    /\ pc = "returned"
    /\ dialog = "parse_error"
    /\ \E col \in 1..max_column(sheet) : cell(sheet, HeaderRow, col) # None
    /\ max_row(sheet) >= FirstDataRow

\* C9: in the block list each weekday appears at most once, each block
\* starts at the leftmost column of the header row whose trimmed cell is
\* that weekday's label, and the blocks are in strictly increasing column
\* order.
C9_BlockShape ==
    Scanned =>
        /\ \A i \in 1..Len(day_blocks) : \A j \in 1..Len(day_blocks) :
              i < j => /\ day_blocks[i].day # day_blocks[j].day
                       /\ day_blocks[i].start_col < day_blocks[j].start_col
        /\ \A i \in 1..Len(day_blocks) :
              /\ day_blocks[i].start_col \in 1..max_column(sheet)
              /\ LabelAt(sheet, day_blocks[i].start_col, day_blocks[i].day)
              /\ \A col \in 1..(day_blocks[i].start_col - 1) :
                    ~LabelAt(sheet, col, day_blocks[i].day)

\* C9's case: Tuesday is located left of Monday, against the canonical
\* order, and a second Monday label further right is ignored.
C9_Witness ==
    /\ Scanned
    /\ Len(day_blocks) = 2
    /\ day_blocks[1].day = "Tue"
    /\ day_blocks[2].day = "Mon"
    /\ \E col \in (day_blocks[2].start_col + 1)..max_column(sheet) :
          LabelAt(sheet, col, "Mon")

\* The weekdays the block list locates.
Located == {day_blocks[i].day : i \in 1..Len(day_blocks)}

\* A value a schedule slot may hold: None or a non-empty string of digits.
ClassCodeOrNone(v) ==
    \/ v = None
    \/ /\ v.t = "str"
       /\ v.s # <<>>
       /\ \A i \in 1..Len(v.s) : v.s[i] \in Digits

\* C4: every teacher of the mapping parse_teacher_rows returns has a value
\* for each of the 5 x 7 = 35 slots, each None or a non-empty digit string,
\* and the slots of weekdays that were not located are None.
C4_FullSchedule ==
    Parsed =>
        \A teacher \in DOMAIN data :
            /\ DOMAIN data[teacher] = Days
            /\ \A day \in Days : DOMAIN data[teacher][day] = Periods
            /\ Cardinality({<<day, p>> \in Days \X Periods :
                               p \in DOMAIN data[teacher][day]}) = 35
            /\ \A day \in Days : \A p \in Periods :
                  /\ ClassCodeOrNone(data[teacher][day][p])
                  /\ day \notin Located => data[teacher][day][p] = None

\* C4's case: fewer than 5 weekdays are located and a teacher holds both a
\* class code and, from a cell that is a string without leading digits,
\* None on a located day.
C4_Witness ==
    /\ pc = "parsed"
    /\ Len(day_blocks) < 5
    /\ \E teacher \in DOMAIN data : \E i \in 1..Len(day_blocks) :
          \E p \in Periods : \E q \in Periods : \E row \in FirstDataRow..max_row(sheet) :
             /\ data[teacher][day_blocks[i].day][p] # None
             /\ data[teacher][day_blocks[i].day][q] = None
             /\ isinstance_str(cell(sheet, row, day_blocks[i].start_col + q - 1))

\* The identity a data row gives: the normalised name, or nothing when the
\* identity cell is absent or blank.
RowIdentity(sheet_, row) ==
    LET c == cell(sheet_, row, NameCol)
    IN IF c = None \/ (isinstance_str(c) /\ strip(c.s) = <<>>)
       THEN <<>>
       ELSE normalize_teacher_name(str(c))

DataRows(sheet_) == FirstDataRow..max_row(sheet_)

RowsOf(sheet_, teacher) ==
    {row \in DataRows(sheet_) : RowIdentity(sheet_, row) = teacher}

LastRowOf(sheet_, teacher) ==
    CHOOSE row \in RowsOf(sheet_, teacher) :
        \A other \in RowsOf(sheet_, teacher) : other <= row

\* C7: the teachers of the mapping are exactly the non-empty identities of
\* the data rows, so rows of one normalised name share one entry and rows
\* with an absent or blank identity add none; and for every located weekday
\* and period the schedule holds the normalised cell of the last row of
\* that name, whatever the earlier rows and the unnamed rows hold.
C7_LastRowWins ==
    Parsed =>
        /\ DOMAIN data = {RowIdentity(sheet, row) : row \in DataRows(sheet)} \ {<<>>}
        /\ \A row \in DataRows(sheet) :
              cell(sheet, row, NameCol) \in
                  {Str(<<"k", "(", "1", ")">>), Str(<<"SP", "k", "SP", "(", "2", ")">>)}
              => /\ <<"k">> \in DOMAIN data
                 /\ str(cell(sheet, row, NameCol)) \notin DOMAIN data
        /\ \A teacher \in DOMAIN data : \A i \in 1..Len(day_blocks) :
              \A p \in Periods :
                 data[teacher][day_blocks[i].day][p] =
                     parse_cell_to_class(
                         cell(sheet, LastRowOf(sheet, teacher),
                              day_blocks[i].start_col + p - 1))

\* C7's case: two rows whose identity cells differ normalise to one name,
\* the later row's cell normalises to None where the earlier row's cell is
\* a class code, and the schedule holds None there.
C7_Witness ==
    /\ pc = "parsed"
    /\ \E teacher \in DOMAIN data :
       \E r1 \in RowsOf(sheet, teacher) : \E r2 \in RowsOf(sheet, teacher) :
       \E i \in 1..Len(day_blocks) : \E p \in Periods :
          LET col == day_blocks[i].start_col + p - 1
          IN /\ r1 < r2
             /\ r2 = LastRowOf(sheet, teacher)
             /\ cell(sheet, r1, NameCol) # cell(sheet, r2, NameCol)
             /\ parse_cell_to_class(cell(sheet, r1, col)) # None
             /\ parse_cell_to_class(cell(sheet, r2, col)) = None
             /\ data[teacher][day_blocks[i].day][p] = None

\* C5: every Pattern-A record (day, start, end, class_code) of every teacher
\* has end = start + consecutive length - 1 <= 7, and every period from
\* start to end of that day is not None and carries exactly class_code.
C5_PatternASound ==
    pc = "done" =>
        \A teacher \in DOMAIN summary :
            \A i \in 1..Len(summary[teacher].patternA) :
                LET rec == summary[teacher].patternA[i]
                IN /\ rec.day \in Days
                   /\ rec.start >= 1
                   /\ rec.end = rec.start + config.consecutive_len - 1
                   /\ rec.end <= NumPeriods
                   /\ rec.end >= rec.start
                   /\ rec.class_code # None
                   /\ \A p \in rec.start..rec.end :
                         /\ data[teacher][rec.day][p] # None
                         /\ data[teacher][rec.day][p] = rec.class_code

\* C5's case: a record of a window of 3 periods that starts after period 1,
\* next to a period of another class code.
C5_Witness ==
    /\ pc = "done"
    /\ config.consecutive_len = 3
    /\ \E teacher \in DOMAIN summary :
       \E i \in 1..Len(summary[teacher].patternA) :
          LET rec == summary[teacher].patternA[i]
          IN /\ rec.start > 1
             /\ rec.end < NumPeriods
             /\ data[teacher][rec.day][rec.end + 1] \notin {None, rec.class_code}

\* The weekdays on which every target period holds a class.
QualifyingB(day_map, target_periods) ==
    {day \in Days :
        \A i \in 1..Len(target_periods) :
            /\ target_periods[i] \in Periods
            /\ day_map[day][target_periods[i]] # None}

\* The weekdays whose period 7 holds a class.
QualifyingC(day_map) == {day \in Days : day_map[day][7] # None}

\* The weekdays of a set in canonical order.
Canonical(days) == SelectSeq(DAYS_ORDER, LAMBDA day : day \in days)

\* C6: Pattern B is triggered exactly when the weekdays on which every
\* target period is not None number at least min_days, Pattern C exactly
\* when the period-7 check is on and the weekdays whose period 7 is not
\* None number at least min_days; a triggered pattern records exactly its
\* qualifying days in canonical order, an untriggered one records none.
C6_Threshold ==
    pc = "done" =>
        \A teacher \in DOMAIN summary :
            LET qB == QualifyingB(data[teacher], config.target_periods)
                qC == QualifyingC(data[teacher])
                b == summary[teacher].patternB
                c == summary[teacher].patternC
            IN /\ b.triggered <=> Cardinality(qB) >= config.min_days
               /\ c.triggered <=>
                     (config.check_period7 /\ Cardinality(qC) >= config.min_days)
               /\ b.days = IF b.triggered THEN Canonical(qB) ELSE <<>>
               /\ c.days = IF c.triggered THEN Canonical(qC) ELSE <<>>

\* C6's case: in one run a teacher with exactly min_days qualifying days
\* triggers Patterns B and C, and a teacher with min_days - 1 period-7 days
\* does not trigger Pattern C.
C6_Witness ==
    /\ pc = "done"
    /\ config.min_days \in 2..5
    /\ config.check_period7
    /\ \E teacher \in DOMAIN summary :
          /\ Cardinality(QualifyingB(data[teacher], config.target_periods))
                = config.min_days
          /\ Cardinality(QualifyingC(data[teacher])) = config.min_days
          /\ summary[teacher].patternB.triggered
          /\ summary[teacher].patternC.triggered
    /\ \E teacher \in DOMAIN summary :
          /\ Cardinality(QualifyingC(data[teacher])) = config.min_days - 1
          /\ ~summary[teacher].patternC.triggered

EmptySummary ==
    [patternA |-> <<>>,
     patternB |-> [triggered |-> FALSE, days |-> <<>>],
     patternC |-> [triggered |-> FALSE, days |-> <<>>]]

\* The number of messages the summary's patterns stand for.
MessageCount(s) ==
    Len(s.patternA) + (IF s.patternB.triggered THEN 1 ELSE 0)
                    + (IF s.patternC.triggered THEN 1 ELSE 0)

\* C8: the summary map has exactly one entry per teacher of the mapping; a
\* teacher is a key of the messages map exactly when Pattern A, B or C
\* produced a message for that teacher, and then holds all of them; a
\* teacher without any message has the empty summary.
C8_Aggregation ==
    pc = "done" =>
        /\ DOMAIN summary = DOMAIN data
        /\ DOMAIN messages \subseteq DOMAIN data
        /\ \A teacher \in DOMAIN data :
              /\ teacher \in DOMAIN messages
                    <=> MessageCount(summary[teacher]) >= 1
              /\ teacher \in DOMAIN messages
                    => Len(messages[teacher]) = MessageCount(summary[teacher])
              /\ teacher \notin DOMAIN messages
                    => summary[teacher] = EmptySummary

\* C8's case: one teacher with messages of Patterns A, B and C and one
\* teacher with none, who still has a summary entry.
C8_Witness ==
    /\ pc = "done"
    /\ \E teacher \in DOMAIN messages :
          /\ summary[teacher].patternA # <<>>
          /\ summary[teacher].patternB.triggered
          /\ summary[teacher].patternC.triggered
    /\ \E teacher \in DOMAIN data :
          /\ teacher \notin DOMAIN messages
          /\ teacher \in DOMAIN summary

\* The window of the given day from period s holds one class code
\* throughout.
OneClass(day_map, day, s, len) ==
    /\ day_map[day][s] # None
    /\ \A p \in s..(s + len - 1) : day_map[day][p] = day_map[day][s]

\* The place of a weekday in DAYS_ORDER.
DayIndex(day) == CHOOSE i \in 1..Len(DAYS_ORDER) : DAYS_ORDER[i] = day

PatternRank(pattern) == IF pattern = "A" THEN 1 ELSE IF pattern = "B" THEN 2 ELSE 3

\* C10: for a consecutive length of at least 1, every window of one class
\* code has exactly one Pattern-A record for its day and start, so a run of
\* n equal codes has n - length + 1 records and no window is suppressed;
\* the records are in canonical weekday order, then by ascending start; and
\* a teacher's messages are the Pattern-A messages in record order, then
\* Pattern B's, then Pattern C's.
C10_PatternAComplete ==
    (pc = "done" /\ config.consecutive_len >= 1) =>
        \A teacher \in DOMAIN summary :
            LET recs == summary[teacher].patternA
                len == config.consecutive_len
                msgs == IF teacher \in DOMAIN messages
                        THEN messages[teacher] ELSE <<>>
            IN /\ \A day \in Days : \A s \in 1..(NumPeriods - len + 1) :
                     OneClass(data[teacher], day, s, len) =>
                        Cardinality({i \in 1..Len(recs) :
                                        recs[i].day = day /\ recs[i].start = s}) = 1
               /\ \A day \in Days : \A a \in Periods : \A b \in Periods :
                     (b - a + 1 >= len /\ OneClass(data[teacher], day, a, b - a + 1)) =>
                        Cardinality({i \in 1..Len(recs) :
                                        /\ recs[i].day = day
                                        /\ recs[i].start \in a..(b - len + 1)})
                           = (b - a + 1) - len + 1
               /\ \A i \in 1..Len(recs) : \A j \in 1..Len(recs) :
                     i < j =>
                        \/ DayIndex(recs[i].day) < DayIndex(recs[j].day)
                        \/ /\ recs[i].day = recs[j].day
                           /\ recs[i].start < recs[j].start
               /\ Len(msgs) >= Len(recs)
               /\ \A i \in 1..Len(recs) :
                     /\ msgs[i].pattern = "A"
                     /\ msgs[i].day = recs[i].day
                     /\ msgs[i].start = recs[i].start
                     /\ msgs[i].end = recs[i].end
               /\ \A i \in 1..Len(msgs) : \A j \in 1..Len(msgs) :
                     i < j =>
                        /\ PatternRank(msgs[i].pattern) <= PatternRank(msgs[j].pattern)
                        /\ msgs[j].pattern = "A" \/ msgs[i].pattern # msgs[j].pattern

\* C10's case: a run of 6 equal codes under a consecutive length of 4 gives
\* the three overlapping windows from its first three periods, and another
\* teacher's Pattern-A messages are followed by Pattern B's and Pattern C's.
C10_Witness ==
    /\ pc = "done"
    /\ config.consecutive_len = 4
    /\ \E teacher \in DOMAIN summary : \E day \in Days :
          LET recs == summary[teacher].patternA
          IN /\ OneClass(data[teacher], day, 1, 6)
             /\ data[teacher][day][7] # data[teacher][day][1]
             /\ Cardinality({i \in 1..Len(recs) : recs[i].day = day}) = 3
    /\ \E teacher \in DOMAIN messages :
          LET msgs == messages[teacher]
          IN /\ Len(msgs) >= 3
             /\ msgs[1].pattern = "A"
             /\ msgs[Len(msgs) - 1].pattern = "B"
             /\ msgs[Len(msgs)].pattern = "C"

====
